---- MODULE Spec2Model ----
(***************************************************************************)
(* Model of core/module.py (weevely3): the Module base class.  A module   *)
(* keeps a record in the session (stored_args, results, status), declares *)
(* mandatory and optional arguments and an optional binding of one        *)
(* argument to the names of its vectors, and run_argv() parses a command  *)
(* line with getopt, merges it with the stored arguments, validates it    *)
(* and drives setup() and run().                                          *)
(*                                                                         *)
(* Python values are modelled as follows.  A str is a TLA+ string.  A     *)
(* dict is a function whose domain is its set of keys.  "None or a value" *)
(* is a sequence of length 0 or 1.  A dict object that is shared by       *)
(* reference (the stored_args of a session record) is a reference into    *)
(* heap.  The hooks setup(), run() and init(), which subclasses override, *)
(* are nondeterministic choices over small sets of behaviours.            *)
(***************************************************************************)
EXTENDS Integers, Sequences, FiniteSets, TLC

VARIABLES
    session,   \* the session: module name -> [stored_args (a reference), results, status]
    heap,      \* reference -> dict: the dict objects that stored_args refer to
    inst,      \* the live Module instance of each name: its registered fields
    call       \* the call just made and what it did, until the caller drops it

vars == <<session, heap, inst, call>>

-----------------------------------------------------------------------------
(* Bounds of the model *)

\* Longest argv handed to run_argv.
MaxArgvLen == 3

\* The words a command line is made of.
Tokens == {"v1", "v3", "--target", "--x"}

\* The module names of the session.
Names == {"ma"}

\* A second module name, for the runs with two modules in one session.
Peers == {"mb"}

AllNames == Names \cup Peers

-----------------------------------------------------------------------------
(* class Status *)

IDLE == 0
RUN == 1
FAIL == 2

StatusValues == {IDLE, RUN, FAIL}

-----------------------------------------------------------------------------
(* Python values *)

None == <<>>
Some(v) == <<v>>

\* The empty dict {}.
EmptyDict == [k \in {} |-> ""]

\* d.update(e)
Update(d, e) ==
    [k \in (DOMAIN d) \cup (DOMAIN e) |-> IF k \in DOMAIN e THEN e[k] ELSE d[k]]

\* d[key] = value
SetItem(d, key, value) ==
    [k \in (DOMAIN d) \cup {key} |-> IF k = key THEN value ELSE d[k]]

\* d.get(key): None when the key is absent
Get(d, key) == IF key \in DOMAIN d THEN Some(d[key]) ELSE None

\* The truth value Python gives "None or a str": None and '' are false.
Truthy(ov) == ov # None /\ ov[1] # ""

\* s.startswith(p)
StartsWith(s, p) == Len(s) >= Len(p) /\ SubSeq(s, 1, Len(p)) = p

\* s.endswith(p)
EndsWith(s, p) == Len(s) >= Len(p) /\ SubSeq(s, Len(s) - Len(p) + 1, Len(s)) = p

\* The least index of character c in s, 0 when there is none.
IndexOf(s, c) ==
    LET hits == {i \in 1..Len(s) : SubSeq(s, i, i) = c}
    IN IF hits = {} THEN 0 ELSE CHOOSE i \in hits : \A j \in hits : i <= j

\* s.strip(c): drop every leading and trailing c.
Strip(s, c) ==
    LET keep == {i \in 1..Len(s) : SubSeq(s, i, i) # c}
    IN IF keep = {} THEN ""
       ELSE LET lo == CHOOSE i \in keep : \A j \in keep : i <= j
                hi == CHOOSE i \in keep : \A j \in keep : j <= i
            IN SubSeq(s, lo, hi)

\* sep.join(words)
RECURSIVE Join(_, _)
Join(words, sep) ==
    IF words = <<>> THEN ""
    ELSE IF Len(words) = 1 THEN words[1]
    ELSE words[1] \o sep \o Join(Tail(words), sep)

-----------------------------------------------------------------------------
(* getopt.getopt(argv, '', longopts), as run_argv calls it: no short       *)
(* options, and every long option takes an argument.  The result is        *)
(* [err, opts, args]: err when getopt raises GetoptError, else the list of *)
(* (option, value) pairs and the list of the remaining words.              *)

\* long_has_args: the declared option that opt names, by an exact match or as
\* a unique prefix.
LongHasArgs(opt, longopts) ==
    LET possibilities == {o \in longopts : StartsWith(o, opt)}
    IN IF possibilities = {} THEN [err |-> TRUE, has_arg |-> FALSE, opt |-> opt]
       ELSE IF opt \in possibilities THEN [err |-> FALSE, has_arg |-> FALSE, opt |-> opt]
       ELSE IF (opt \o "=") \in possibilities
            THEN [err |-> FALSE, has_arg |-> TRUE, opt |-> opt]
       ELSE IF Cardinality(possibilities) > 1
            THEN [err |-> TRUE, has_arg |-> FALSE, opt |-> opt]
       ELSE LET unique_match == CHOOSE o \in possibilities : TRUE
                has_arg == EndsWith(unique_match, "=")
            IN [err |-> FALSE, has_arg |-> has_arg,
                opt |-> IF has_arg
                        THEN SubSeq(unique_match, 1, Len(unique_match) - 1)
                        ELSE unique_match]

\* do_longs: one word that starts with "--", given without these two dashes.
DoLongs(opts, word, longopts, args) ==
    LET i == IndexOf(word, "=")
        opt0 == IF i = 0 THEN word ELSE SubSeq(word, 1, i - 1)
        optarg0 == IF i = 0 THEN None ELSE Some(SubSeq(word, i + 1, Len(word)))
        h == LongHasArgs(opt0, longopts)
        failed == [err |-> TRUE, opts |-> opts, args |-> args]
    IN IF h.err THEN failed
       ELSE IF h.has_arg /\ optarg0 = None /\ args = <<>> THEN failed
       ELSE IF ~h.has_arg /\ optarg0 # None THEN failed
       ELSE LET take == h.has_arg /\ optarg0 = None
                optarg == IF take THEN args[1]
                          ELSE IF optarg0 = None THEN "" ELSE optarg0[1]
            IN [err |-> FALSE,
                opts |-> Append(opts, <<"--" \o h.opt, optarg>>),
                args |-> IF take THEN Tail(args) ELSE args]

\* Options read wherever they stand: a word that is not an option is put
\* aside and the reading goes on (as getopt.gnu_getopt does).
RECURSIVE GetOptAnywhere(_, _, _, _)
GetOptAnywhere(opts, args, longopts, words) ==
    IF args = <<>>
    THEN [err |-> FALSE, opts |-> opts, args |-> words]
    ELSE IF args[1] = "--"
    THEN [err |-> FALSE, opts |-> opts, args |-> words \o Tail(args)]
    ELSE IF ~StartsWith(args[1], "-") \/ args[1] = "-"
    THEN GetOptAnywhere(opts, Tail(args), longopts, Append(words, args[1]))
    ELSE IF StartsWith(args[1], "--")
    THEN LET r == DoLongs(opts, SubSeq(args[1], 3, Len(args[1])), longopts, Tail(args))
         IN IF r.err THEN r ELSE GetOptAnywhere(r.opts, r.args, longopts, words)
    ELSE [err |-> TRUE, opts |-> opts, args |-> args]

GetOptLoopAnywhere(opts, args, longopts) == GetOptAnywhere(opts, args, longopts, <<>>)

\* The loop of getopt.getopt: options are read until the first word that is
\* not an option; "--" ends them; a short option is never recognized.
RECURSIVE GetOptLoop(_, _, _)
GetOptLoop(opts, args, longopts) ==
    IF args = <<>> \/ ~StartsWith(args[1], "-") \/ args[1] = "-"
    THEN [err |-> FALSE, opts |-> opts, args |-> args]
    ELSE IF args[1] = "--"
    THEN [err |-> FALSE, opts |-> opts, args |-> Tail(args)]
    ELSE IF StartsWith(args[1], "--")
    THEN LET r == DoLongs(opts, SubSeq(args[1], 3, Len(args[1])), longopts, Tail(args))
         IN IF r.err THEN r ELSE GetOptLoop(r.opts, r.args, longopts)
    ELSE [err |-> TRUE, opts |-> opts, args |-> args]

\* ['%s=' % a for a in self.args_optional.keys()]
LongOpts(args_optional) == {a \o "=" : a \in DOMAIN args_optional}

GetOpt(argv, longopts) == GetOptLoop(<<>>, argv, longopts)

\* dict((key.strip('-'), value) for (key, value) in line_args_optional):
\* a later pair overwrites an earlier one of the same key.
RECURSIVE OptionalDict(_)
OptionalDict(line_args_optional) ==
    IF line_args_optional = <<>> THEN EmptyDict
    ELSE LET n == Len(line_args_optional)
             p == line_args_optional[n]
         IN SetItem(OptionalDict(SubSeq(line_args_optional, 1, n - 1)),
                    Strip(p[1], "-"), p[2])

\* The declared names given the last words of the line instead of the first.
MandatoryDictFromEnd(args_mandatory, line_args_mandatory) ==
    LET n == Len(args_mandatory)
        skip == Len(line_args_mandatory) - n
    IN [k \in {args_mandatory[i] : i \in 1..n} |->
           line_args_mandatory[skip + CHOOSE i \in 1..n :
               /\ args_mandatory[i] = k
               /\ \A j \in (i + 1)..n : args_mandatory[j] # k]]

\* dict((key, line_args_mandatory.pop(0)) for key in self.args_mandatory):
\* the i-th declared name takes the i-th word; words beyond the declared
\* names are left in the list and dropped.
RECURSIVE MandatoryDict(_, _)
MandatoryDict(args_mandatory, line_args_mandatory) ==
    IF args_mandatory = <<>> THEN EmptyDict
    ELSE LET n == Len(args_mandatory)
         IN SetItem(MandatoryDict(SubSeq(args_mandatory, 1, n - 1), line_args_mandatory),
                    args_mandatory[n], line_args_mandatory[n])

-----------------------------------------------------------------------------
(* The hooks that subclasses of Module override *)

\* init(): what a module class registers when it is constructed.  "sh" has one
\* mandatory argument, an optional argument of the same name, and an optional
\* argument bound to its vectors; "cp" has two mandatory arguments and calls
\* register_arguments without an optional mapping.
ModuleClasses == {"sh", "cp"}

Descriptor(c) ==
    IF c = "sh"
    THEN [mandatory |-> <<"x">>,
          optional |-> Some([x |-> "1", target |-> ""]),
          bind_to_vectors |-> "target",
          vectors |-> {"v1", "v2"}]
    ELSE [mandatory |-> <<"x", "y">>,
          optional |-> None,
          bind_to_vectors |-> "",
          vectors |-> {}]

\* setup(args): returns a status and may store one argument in the session.
SetupWrites == {None, Some(<<"y", "5">>), Some(<<"x", "2">>), Some(<<"target", "v3">>)}

\* run(args): returns a result (or None) and may call _store_result.
RunResults == {None, Some("out")}

-----------------------------------------------------------------------------
(* The dict objects behind stored_args *)

\* The dict object that is the default value of register_arguments' parameter
\* optional: one object, made when the function is defined.
DefaultOptional == 0

Refs == 0..(Cardinality(AllNames) + 1)

Live(sess) == {DefaultOptional} \cup {sess[n].stored_args : n \in DOMAIN sess}

\* The reference of a dict object made now.
NewRef(sess) ==
    CHOOSE r \in Refs \ Live(sess) : \A q \in Refs \ Live(sess) : r <= q

\* Objects that nothing refers to are gone.
Collect(sess, hp) == [r \in Refs |-> IF r \in Live(sess) THEN hp[r] ELSE EmptyDict]

\* The session record of m, with the dict its stored_args refers to.
RecordValue(sess, hp, m) ==
    IF m \in DOMAIN sess
    THEN Some([stored_args |-> hp[sess[m].stored_args],
               results |-> sess[m].results,
               status |-> sess[m].status])
    ELSE None

-----------------------------------------------------------------------------
(* The call just made *)

NoCall ==
    [op |-> "none", m |-> "", argv |-> <<>>, class |-> "", pre |-> None,
     optional |-> None,
     setup |-> None, setup_ret |-> None, run |-> None, ret |-> None,
     raised |-> "", aborted |-> "", help |-> FALSE,
     line |-> None, wrote |-> FALSE]

Init ==
    /\ session = EmptyDict
    /\ heap = [r \in Refs |-> EmptyDict]
    /\ inst = EmptyDict
    /\ call = NoCall

-----------------------------------------------------------------------------
(* Module.register_arguments(mandatory, optional, bind_to_vectors) on the   *)
(* instance of m; optional is None when the caller leaves it out.  The      *)
(* result is the session, the heap and the instance's fields after the call *)

\* The registered defaults written over the stored arguments.
RegisterArgumentsDefaultsWin(sess, hp, fields, m, mandatory, optional, bind_to_vectors) ==
    LET ref == IF optional = None THEN DefaultOptional ELSE NewRef(sess)
        hp1 == IF optional = None THEN hp ELSE [hp EXCEPT ![ref] = optional[1]]
        args_optional == hp1[ref]
        hp2 == [hp1 EXCEPT ![ref] = Update(hp1[sess[m].stored_args], hp1[ref])]
        sess2 == [sess EXCEPT ![m].stored_args = ref]
    IN [session |-> sess2,
        heap |-> hp2,
        fields |-> [fields EXCEPT !.args_mandatory = mandatory,
                                  !.args_optional = args_optional,
                                  !.bind_to_vectors = bind_to_vectors]]

RegisterArguments(sess, hp, fields, m, mandatory, optional, bind_to_vectors) ==
    LET ref == IF optional = None THEN DefaultOptional ELSE NewRef(sess)
        hp1 == IF optional = None THEN hp ELSE [hp EXCEPT ![ref] = optional[1]]
        args_optional == hp1[ref]
        hp2 == [hp1 EXCEPT ![ref] = Update(hp1[ref], hp1[sess[m].stored_args])]
        sess2 == [sess EXCEPT ![m].stored_args = ref]
    IN [session |-> sess2,
        heap |-> hp2,
        fields |-> [fields EXCEPT !.args_mandatory = mandatory,
                                  !.args_optional = args_optional,
                                  !.bind_to_vectors = bind_to_vectors]]

\* A new record made at every construction.
EnsureRecordAlways(sess, m, r) ==
    SetItem(sess, m, [stored_args |-> r, results |-> EmptyDict, status |-> IDLE])

\* if name not in self.session: the record of a name that has none.  r is the
\* reference of the new, empty stored_args.
EnsureRecord(sess, m, r) ==
    IF m \in DOMAIN sess THEN sess
    ELSE SetItem(sess, m, [stored_args |-> r, results |-> EmptyDict, status |-> IDLE])

\* The mapping register_arguments receives as optional for class c: the one
\* the class gives, or what the default object holds at the time of the call.
OptionalGiven(hp, c) ==
    IF Descriptor(c).optional = None THEN hp[DefaultOptional] ELSE Descriptor(c).optional[1]

\* A Module object before init() has registered anything.
NewInstance ==
    [args_mandatory |-> <<>>, args_optional |-> EmptyDict,
     bind_to_vectors |-> "", vectors |-> {}]

\* Module.__init__(session, name) of a module of class c: the session record
\* is made when the name has none, then init() registers the class's
\* arguments and vectors.  Constructing a module again for the same name is
\* how register_arguments comes to run on a record that holds stored values.
Construct(m, c) ==
    /\ LET d == Descriptor(c)
           r == NewRef(session)
           sess1 == EnsureRecord(session, m, r)
           hp1 == IF sess1[m].stored_args = r THEN [heap EXCEPT ![r] = EmptyDict] ELSE heap
           reg == RegisterArguments(sess1, hp1, NewInstance, m,
                                    d.mandatory, d.optional, d.bind_to_vectors)
       IN /\ session' = reg.session
          /\ heap' = Collect(reg.session, reg.heap)
          /\ inst' = SetItem(inst, m, [reg.fields EXCEPT !.vectors = d.vectors])
          /\ call' = [NoCall EXCEPT !.op = "construct", !.m = m, !.class = c,
                                    !.pre = RecordValue(session, heap, m),
                                    !.optional = Some(OptionalGiven(heap, c))]

-----------------------------------------------------------------------------
(* Module.run_argv(argv) *)

\* Every argv of at most MaxArgvLen words.
Argvs == UNION {[1..n -> Tokens] : n \in 0..MaxArgvLen}

\* The words joined with nothing between them.
JoinMandatoryNoSpace(args_mandatory, line_args_mandatory) ==
    IF Len(line_args_mandatory) > 1 /\ Len(args_mandatory) = 1
    THEN <<Join(line_args_mandatory, "")>>
    ELSE line_args_mandatory

\* The words left after the options, joined into one when one mandatory
\* argument is declared and more than one word is given.
JoinMandatory(args_mandatory, line_args_mandatory) ==
    IF Len(line_args_mandatory) > 1 /\ Len(args_mandatory) = 1
    THEN <<Join(line_args_mandatory, " ")>>
    ELSE line_args_mandatory

\* The options of the command line written over the mandatory words.
MergeArgsOptionalLast(stored_args, line_args_optional, args_mandatory, line_args_mandatory) ==
    Update(Update(stored_args, MandatoryDict(args_mandatory, line_args_mandatory)),
           OptionalDict(line_args_optional))

\* The arguments of the call: the stored arguments, then the options of the
\* command line, then the mandatory words.
MergeArgs(stored_args, line_args_optional, args_mandatory, line_args_mandatory) ==
    Update(Update(stored_args, OptionalDict(line_args_optional)),
           MandatoryDict(args_mandatory, line_args_mandatory))

\* The check of the bound argument left out.
NotAVectorDropped(args, bind_to_vectors, names) == FALSE

\* The membership test the wrong way round.
NotAVectorInverted(args, bind_to_vectors, names) ==
    LET vect_arg_value == Get(args, bind_to_vectors)
    IN Truthy(vect_arg_value) /\ vect_arg_value[1] \in names

\* The value given for the argument bound to the vectors names no vector.
NotAVector(args, bind_to_vectors, names) ==
    LET vect_arg_value == Get(args, bind_to_vectors)
    IN Truthy(vect_arg_value) /\ vect_arg_value[1] \notin names

\* The stored arguments that differ from the copy taken before setup().
\* Reading the copy at a key it does not have raises KeyError.
UpdatedMissing(current, stored_args) == (DOMAIN current) \ (DOMAIN stored_args) # {}

\* What setup() stored left out of the arguments of run().
UpdatedArgsNone(current, stored_args) == EmptyDict

\* updated_stored_args: the stored arguments whose value is not the one of the
\* copy taken before setup().
UpdatedArgs(current, stored_args) ==
    [k \in {key \in DOMAIN current : current[key] # stored_args[key]} |-> current[k]]

\* A module that is set up again unless it failed.
NeedsSetupMutant(status) == status # FAIL

\* if status == Status.IDLE: only an IDLE module is set up.
NeedsSetup(status) == status = IDLE

\* The check of FAIL left out.
InactiveMutant(status) == FALSE

\* if status == Status.FAIL: a failed module does not run.
Inactive(status) == status = FAIL

\* len(line_args_mandatory) < len(self.args_mandatory)
MissingArguments(args_mandatory, line_args_mandatory) ==
    Len(line_args_mandatory) < Len(args_mandatory)

\* Help rendered at every early return.
HelpRenderedAlways(why) == TRUE

\* The early returns of run_argv that call self.help(): the one of the
\* option error and the one of the missing arguments.  The one of the vector
\* only logs a warning.
HelpRendered(why) == why \in {"InvalidOptions", "MissingArguments"}

\* An early return that marks the module as failed.
AbortMutant(obs, why) ==
    /\ call' = [obs EXCEPT !.aborted = why, !.help = HelpRendered(why)]
    /\ session' = [session EXCEPT ![obs.m].status = FAIL]
    /\ UNCHANGED <<heap, inst>>

\* An early return of run_argv: nothing of the session changes.  obs is the
\* call as it stands on entry.
Abort(obs, why) ==
    /\ call' = [obs EXCEPT !.aborted = why, !.help = HelpRendered(why)]
    /\ UNCHANGED <<session, heap, inst>>

\* From the status check to the end of run_argv, the arguments of run()
\* written into the stored arguments on the way.
LifecycleStoresArgs(m, args, stored_args, status, hp, obs) ==
    LET current == hp[session[m].stored_args]
        sess1 == [session EXCEPT ![m].status = status]
    IN IF Inactive(status)
       THEN /\ session' = sess1
            /\ heap' = hp
            /\ call' = [obs EXCEPT !.aborted = "ModuleInactive"]
       ELSE IF UpdatedMissing(current, stored_args)
       THEN /\ session' = sess1
            /\ heap' = hp
            /\ call' = [obs EXCEPT !.raised = "KeyError"]
       ELSE \E result \in RunResults, store \in BOOLEAN :
            LET run_args == Update(args, UpdatedArgs(current, stored_args))
            IN /\ session' = [sess1 EXCEPT ![m].results =
                                 IF store THEN SetItem(@, "r", "out") ELSE @]
               /\ heap' = [hp EXCEPT ![session[m].stored_args] = run_args]
               /\ call' = [obs EXCEPT !.run = Some(run_args), !.ret = result,
                                      !.wrote = @ \/ store]

\* From the status check to the end of run_argv.  status is the status after
\* setup() (when it ran), hp the heap after it, obs what the call did so far.
Lifecycle(m, args, stored_args, status, hp, obs) ==
    LET current == hp[session[m].stored_args]
        sess1 == [session EXCEPT ![m].status = status]
    IN IF Inactive(status)
       THEN /\ session' = sess1
            /\ heap' = hp
            /\ call' = [obs EXCEPT !.aborted = "ModuleInactive"]
       ELSE IF UpdatedMissing(current, stored_args)
       THEN /\ session' = sess1
            /\ heap' = hp
            /\ call' = [obs EXCEPT !.raised = "KeyError"]
       ELSE \E result \in RunResults, store \in BOOLEAN :
            LET run_args == Update(args, UpdatedArgs(current, stored_args))
            IN /\ session' = [sess1 EXCEPT ![m].results =
                                 IF store THEN SetItem(@, "r", "out") ELSE @]
               /\ heap' = hp
               /\ call' = [obs EXCEPT !.run = Some(run_args), !.ret = result,
                                      !.wrote = @ \/ store]

\* The body of run_argv on the module obs.m with the words obs.argv; obs is
\* the call as it stands on entry.
RunArgvAs(obs) ==
    /\ obs.m \in DOMAIN inst
    /\ LET m == obs.m
           argv == obs.argv
           self == inst[m]
           parsed == GetOpt(argv, LongOpts(self.args_optional))
           line_args_mandatory == JoinMandatory(self.args_mandatory, parsed.args)
           stored_args == heap[session[m].stored_args]
           args == MergeArgs(stored_args, parsed.opts,
                             self.args_mandatory, line_args_mandatory)
       IN IF parsed.err
          THEN Abort(obs, "InvalidOptions")
          ELSE IF MissingArguments(self.args_mandatory, parsed.args)
          THEN Abort(obs, "MissingArguments")
          ELSE IF NotAVector(args, self.bind_to_vectors, self.vectors)
          THEN Abort(obs, "NotAVector")
          ELSE /\ UNCHANGED inst
               /\ IF NeedsSetup(session[m].status)
                  THEN \E status \in StatusValues, write \in SetupWrites :
                       LET ref == session[m].stored_args
                           hp == IF write = None THEN heap
                                 ELSE [heap EXCEPT ![ref] =
                                          SetItem(@, write[1][1], write[1][2])]
                       IN Lifecycle(m, args, stored_args, status, hp,
                                    [obs EXCEPT !.setup = Some(args),
                                                !.setup_ret = Some(status),
                                                !.wrote = write # None])
                  ELSE Lifecycle(m, args, stored_args, session[m].status, heap, obs)

\* run_argv(argv) called on the module m.
RunArgv(m, argv) ==
    RunArgvAs([NoCall EXCEPT !.op = "run_argv", !.m = m, !.argv = argv,
                             !.pre = RecordValue(session, heap, m)])

-----------------------------------------------------------------------------
(* Module.run_cmdline(line) *)

\* The lines handed to run_cmdline.
Lines ==
    {"", "v1", "v1 v3", "v1  v3 ", "'v1 v3'", "--x v3 \"v1\"", "--target v1 v3",
     "--target v3 v1", "--x", "'v1", "v1 \"v3", "v1\\"}

Whitespace == {" ", "\t", "\r", "\n"}

\* The word in hand put at the end of the words read.
Flush(words, token) == IF token = None THEN words ELSE Append(words, token[1])

\* The word in hand with the character c added; a word begins with its first
\* character or quote.
Add(token, c) == IF token = None THEN Some(c) ELSE Some(token[1] \o c)

\* shlex.split(line), from the i-th character on.  state is " " outside
\* quotes, else the quote that is open; token is the word in hand, words the
\* words read.  The end of the line inside a quote or after a backslash is
\* the ValueError of shlex.
RECURSIVE ShlexRead(_, _, _, _, _)
ShlexRead(line, i, state, token, words) ==
    IF i > Len(line)
    THEN IF state = " "
         THEN [err |-> FALSE, argv |-> Flush(words, token)]
         ELSE [err |-> TRUE, argv |-> <<>>]
    ELSE LET c == SubSeq(line, i, i)
             last == i = Len(line)
             next == SubSeq(line, i + 1, i + 1)
         IN IF state = "'"
            THEN IF c = "'"
                 THEN ShlexRead(line, i + 1, " ", token, words)
                 ELSE ShlexRead(line, i + 1, state, Add(token, c), words)
            ELSE IF state = "\""
            THEN IF c = "\""
                 THEN ShlexRead(line, i + 1, " ", token, words)
                 ELSE IF c = "\\"
                 THEN IF last THEN [err |-> TRUE, argv |-> <<>>]
                      ELSE IF next \in {"\"", "\\"}
                      THEN ShlexRead(line, i + 2, state, Add(token, next), words)
                      ELSE ShlexRead(line, i + 2, state, Add(token, c \o next), words)
                 ELSE ShlexRead(line, i + 1, state, Add(token, c), words)
            ELSE IF c \in Whitespace
            THEN ShlexRead(line, i + 1, " ", None, Flush(words, token))
            ELSE IF c \in {"'", "\""}
            THEN ShlexRead(line, i + 1, c, Add(token, ""), words)
            ELSE IF c = "\\"
            THEN IF last THEN [err |-> TRUE, argv |-> <<>>]
                 ELSE ShlexRead(line, i + 2, " ", Add(token, next), words)
            ELSE ShlexRead(line, i + 1, " ", Add(token, c), words)

ShlexSplit(line) == ShlexRead(line, 1, " ", None, <<>>)

\* What run_cmdline lets through to its caller: only the ValueError of the
\* tokenizing is caught.
RunCmdlineRaisedBeyondLexing(c) == IF c.raised = "ValueError" THEN "" ELSE c.raised

\* The classes except Exception catches.
Exceptions == {"ValueError", "KeyError"}

\* What run_cmdline lets through to its caller of what shlex.split or
\* run_argv raised (c is the call as run_argv left it): except Exception
\* catches it.
RunCmdlineRaised(c) == IF c.raised \in Exceptions THEN "" ELSE c.raised

\* What run_cmdline returns: nothing after an exception, else the result of
\* run_argv.
RunCmdlineResult(c) == IF c.raised \in Exceptions THEN None ELSE c.ret

\* run_cmdline(line) called on the module m: the line is split into words
\* and run_argv runs on them.
RunCmdline(m, line) ==
    LET words == ShlexSplit(line)
        obs == [NoCall EXCEPT !.op = "run_cmdline", !.m = m, !.line = Some(line),
                              !.pre = RecordValue(session, heap, m)]
    IN IF words.err
       THEN /\ m \in DOMAIN inst
            /\ call' = [obs EXCEPT !.raised = "ValueError"]
            /\ UNCHANGED <<session, heap, inst>>
       ELSE RunArgvAs([obs EXCEPT !.argv = words.argv])

\* The caller takes what the call returned and is ready for the next call.
Return ==
    /\ call.op # "none"
    /\ call' = NoCall
    /\ UNCHANGED <<session, heap, inst>>

\* The caller is ready to make a call.
Ready == call.op = "none"

DoConstruct == Ready /\ \E m \in Names, c \in ModuleClasses : Construct(m, c)

DoRunArgv == Ready /\ \E m \in Names, argv \in Argvs : RunArgv(m, argv)

Next ==
    \/ DoConstruct
    \/ DoRunArgv
    \/ Return

Spec == Init /\ [][Next]_vars

\* The module driven from the terminal, by lines.
DoRunCmdline == Ready /\ \E m \in Names, line \in Lines : RunCmdline(m, line)

NextCmdline ==
    \/ DoConstruct
    \/ DoRunCmdline
    \/ Return

SpecCmdline == Init /\ [][NextCmdline]_vars

\* Two modules in one session: both are constructed, the first is run, with
\* one command line.
PeerArgvs == {<<"v1", "v3">>}

DoConstructAny == Ready /\ \E m \in AllNames, c \in ModuleClasses : Construct(m, c)

DoRunArgvOne == Ready /\ \E m \in Names, argv \in PeerArgvs : RunArgv(m, argv)

NextPeers ==
    \/ DoConstructAny
    \/ DoRunArgvOne
    \/ Return

SpecPeers == Init /\ [][NextPeers]_vars

-----------------------------------------------------------------------------
(* Properties *)

\* The call just made is a run_argv.
Ran == call.op = "run_argv"

\* The session record of the called module before and after the call.
Before == call.pre[1]
After == RecordValue(session, heap, call.m)[1]

\* C1: the status of a session record changes only while it is IDLE: a status
\* of RUN or FAIL is never changed by any call, and run_argv does not invoke
\* setup() on a record whose status is RUN.
C1_StatusLeavesOnlyIdle ==
    [][\A m \in DOMAIN session :
          /\ session[m].status # IDLE => session'[m].status = session[m].status
          /\ (session[m].status = RUN /\ call'.op = "run_argv" /\ call'.m = m)
                => call'.setup = None]_vars

\* A run_argv on a module that was RUN ran it without setting it up.
C1_Witness ==
    /\ Ran
    /\ Before.status = RUN
    /\ call.run # None
    /\ After.status = RUN

\* C2: a run_argv on a module whose status is FAIL returns None, invokes
\* neither setup() nor run() and raises nothing, for any argv; and the call in
\* which setup() returns FAIL leaves the status FAIL and does not invoke run().
C2_FailedNeverRuns ==
    Ran =>
        /\ Before.status = FAIL =>
              /\ call.ret = None
              /\ call.run = None
              /\ call.setup = None
              /\ call.raised = ""
        /\ call.setup_ret = Some(FAIL) =>
              /\ After.status = FAIL
              /\ call.ret = None
              /\ call.run = None

\* A failed module is called with arguments that pass every check, and the
\* call ends at the check of FAIL.
C2_Witness ==
    /\ Ran
    /\ Before.status = FAIL
    /\ call.aborted = "ModuleInactive"
    /\ call.argv # <<>>

\* setup() ran in the call just made, stored key under value in stored_args,
\* and the key was not stored before the call.
SetupAdded(key, value) ==
    /\ Ran
    /\ call.setup # None
    /\ key \notin DOMAIN Before.stored_args
    /\ key \in DOMAIN After.stored_args
    /\ After.stored_args[key] = value

\* C3: when setup() adds the key y, absent from stored_args before the call,
\* with the value "5" and returns RUN, run() is invoked in that call and the
\* arguments it receives have y = "5".
C3_RunSeesAddedKey ==
    (SetupAdded("y", "5") /\ call.setup_ret = Some(RUN)) =>
        /\ call.run # None
        /\ "y" \in DOMAIN call.run[1]
        /\ call.run[1]["y"] = "5"

\* The first word of argv is a long option that no declared optional
\* argument matches, not even as a prefix.
UnrecognizedFlag(argv, args_optional) ==
    /\ argv # <<>>
    /\ StartsWith(argv[1], "--")
    /\ Len(argv[1]) > 2
    /\ IndexOf(argv[1], "=") = 0
    /\ \A a \in DOMAIN args_optional :
          ~StartsWith(a, SubSeq(argv[1], 3, Len(argv[1])))

\* The ways run_argv ends before the status is looked at.
ParseFailures == {"InvalidOptions", "MissingArguments"}
ValidationFailures == ParseFailures \cup {"NotAVector"}

\* C4: a run_argv whose argv fails option parsing (such as an unrecognized
\* flag) or has fewer mandatory words than the module declares invokes neither
\* setup() nor run(), returns None and leaves the session record as it was; and
\* a call on an IDLE module that passes the checks invokes setup().
C4_ParseFailureChangesNothing ==
    Ran =>
        /\ UnrecognizedFlag(call.argv, inst[call.m].args_optional)
              => call.aborted = "InvalidOptions"
        /\ Len(call.argv) < Len(inst[call.m].args_mandatory)
              => call.aborted \in ParseFailures
        /\ call.aborted \in ParseFailures =>
              /\ call.setup = None
              /\ call.run = None
              /\ call.ret = None
              /\ call.raised = ""
              /\ After = Before
        /\ (Before.status = IDLE /\ call.aborted \notin ValidationFailures)
              => call.setup # None

\* An IDLE module is called with an unrecognized flag and with too few words.
C4_Witness ==
    /\ Ran
    /\ Before.status = IDLE
    /\ UnrecognizedFlag(call.argv, inst[call.m].args_optional)
    /\ Len(call.argv) < Len(inst[call.m].args_mandatory)
    /\ After.status = IDLE

\* The call just made gave the bound argument as its first option, once, the
\* argument is not also a mandatory one, and the rest of argv parsed.
BoundOptionGiven ==
    /\ Ran
    /\ LET self == inst[call.m]
           flag == "--" \o self.bind_to_vectors
       IN /\ self.bind_to_vectors # ""
          /\ self.bind_to_vectors \in DOMAIN self.args_optional
          /\ \A i \in 1..Len(self.args_mandatory) :
                self.args_mandatory[i] # self.bind_to_vectors
          /\ Len(call.argv) >= 2
          /\ call.argv[1] = flag
          /\ \A i \in 3..Len(call.argv) : call.argv[i] # flag
          /\ call.aborted \notin ParseFailures

BadBoundValue(hook_args, self) ==
    /\ hook_args # None
    /\ self.bind_to_vectors # ""
    /\ self.bind_to_vectors \in DOMAIN hook_args[1]
    /\ hook_args[1][self.bind_to_vectors] \notin self.vectors

\* C6, as claimed: whenever run_argv invokes setup() or run() on a module with
\* a bound argument, a value for that argument in the arguments handed over,
\* the empty string included, names a vector.
C6_EveryBoundValueIsVector ==
    Ran =>
        /\ ~BadBoundValue(call.setup, inst[call.m])
        /\ ~BadBoundValue(call.run, inst[call.m])

\* C6, amended: setup() never receives a value for the bound argument that is
\* not empty and names no vector, and neither does run() unless setup()
\* changed the stored value of the bound argument in that call.
C6_NonEmptyBoundValueIsVector ==
    Ran =>
        LET self == inst[call.m]
            b == self.bind_to_vectors
        IN /\ BadBoundValue(call.setup, self) => call.setup[1][b] = ""
           /\ (/\ BadBoundValue(call.run, self)
               /\ Get(After.stored_args, b) = Get(Before.stored_args, b))
                 => call.run[1][b] = ""

\* setup() and run() both receive a value of the bound argument that is not
\* empty, here the name of a vector given on the command line.
C6_Witness ==
    /\ Ran
    /\ inst[call.m].bind_to_vectors = "target"
    /\ call.setup # None
    /\ call.setup[1]["target"] = "v1"
    /\ call.run # None
    /\ call.run[1]["target"] = "v1"

\* No word of argv is an option.
PlainWords(argv) == \A i \in 1..Len(argv) : ~StartsWith(argv[i], "-")

\* The words in their order, one space between two neighbours.
RECURSIVE SpaceJoined(_)
SpaceJoined(words) ==
    IF Len(words) = 1 THEN words[1]
    ELSE SpaceJoined(SubSeq(words, 1, Len(words) - 1)) \o " " \o words[Len(words)]

\* C7: for a module with exactly one mandatory argument, a run_argv with one
\* or more mandatory words resolves the argument to the words joined in their
\* order with single spaces (one word: that word).  setup() receives this
\* value, and so does run() when setup() left the stored value of the argument
\* as it was.
C7_OneMandatoryJoinsWords ==
    (/\ Ran
     /\ Len(inst[call.m].args_mandatory) = 1
     /\ call.argv # <<>>
     /\ PlainWords(call.argv)) =>
        LET name == inst[call.m].args_mandatory[1]
            expected == SpaceJoined(call.argv)
        IN /\ call.aborted \notin ParseFailures
           /\ call.setup # None => call.setup[1][name] = expected
           /\ (/\ call.run # None
               /\ Get(After.stored_args, name) = Get(Before.stored_args, name))
                 => call.run[1][name] = expected

\* Three words are given for the one mandatory argument x.
C7_Witness ==
    /\ Ran
    /\ inst[call.m].args_mandatory = <<"x">>
    /\ call.argv = <<"v1", "v3", "v1">>
    /\ call.setup # None
    /\ call.setup[1]["x"] = "v1 v3 v1"
    /\ call.run # None
    /\ call.run[1]["x"] = "v1 v3 v1"

\* The call just made constructed a module, and so registered the arguments
\* of its class.
Registered == call.op = "construct"

\* The stored arguments of the module before the call: none when the session
\* record was made by this call.
PriorStored == IF call.pre = None THEN EmptyDict ELSE Before.stored_args

\* C8: after register_arguments the stored arguments are the registered
\* optional defaults overlaid by the arguments stored before: every key stored
\* before keeps its stored value, a key only among the defaults has the
\* default, there is no other key, and args_optional holds the defaults as
\* registered.  The defaults of class sh are x = "1" and target = "".
C8_StoredBeatsRegistered ==
    Registered =>
        LET defaults == call.optional[1]
            stored == After.stored_args
        IN /\ call.class = "sh" => defaults = [x |-> "1", target |-> ""]
           /\ DOMAIN stored = (DOMAIN defaults) \cup (DOMAIN PriorStored)
           /\ \A k \in DOMAIN PriorStored : stored[k] = PriorStored[k]
           /\ \A k \in (DOMAIN defaults) \ (DOMAIN PriorStored) : stored[k] = defaults[k]
           /\ inst[call.m].args_optional = defaults

\* x = "2" was stored when the default x = "1" is registered.
C8_Witness ==
    /\ Registered
    /\ call.class = "sh"
    /\ call.pre # None
    /\ Before.stored_args = [x |-> "2", target |-> ""]
    /\ After.stored_args["x"] = "2"
    /\ inst[call.m].args_optional["x"] = "1"

\* The call just made begins with one declared option and its value, or with
\* none, and goes on with plain words, as many as a module of one mandatory
\* argument takes without joining them, or at least as many as are declared.
Layered ==
    /\ Ran
    /\ LET self == inst[call.m]
           with_option == /\ Len(call.argv) >= 2
                          /\ StartsWith(call.argv[1], "--")
                          /\ SubSeq(call.argv[1], 3, Len(call.argv[1]))
                                \in DOMAIN self.args_optional
           words == IF with_option THEN SubSeq(call.argv, 3, Len(call.argv))
                    ELSE call.argv
       IN /\ PlainWords(words)
          /\ Len(words) >= Len(self.args_mandatory)
          /\ Len(self.args_mandatory) = 1 => Len(words) = 1

\* What the claim gives for each key: the word of the last declared mandatory
\* name equal to the key, else the value of the option of that name, else
\* the stored value.
LayeredArgs ==
    LET self == inst[call.m]
        names == self.args_mandatory
        with_option == StartsWith(call.argv[1], "--")
        option == IF with_option THEN {SubSeq(call.argv[1], 3, Len(call.argv[1]))} ELSE {}
        words == IF with_option THEN SubSeq(call.argv, 3, Len(call.argv)) ELSE call.argv
        positions(k) == {i \in 1..Len(names) : names[i] = k}
        last(k) == CHOOSE i \in positions(k) : \A j \in positions(k) : j <= i
    IN [k \in (DOMAIN Before.stored_args) \cup option \cup {names[i] : i \in 1..Len(names)} |->
          IF positions(k) # {} THEN words[last(k)]
          ELSE IF k \in option THEN call.argv[2]
          ELSE Before.stored_args[k]]

\* C9: the arguments handed to setup() are the stored arguments, overwritten
\* by the options of the command line under their names without the dashes,
\* overwritten by the mandatory words given to the declared names in their
\* order.  run() receives the same when setup() is not invoked.
C9_ArgsLayering ==
    (Layered /\ call.argv # <<>>) =>
        /\ call.setup # None => call.setup[1] = LayeredArgs
        /\ (call.setup = None /\ call.run # None) => call.run[1] = LayeredArgs

\* --x v3 v1 on a module whose mandatory argument x is also optional and
\* stored: the word beats the option, which beats the stored value.
C9_Witness ==
    /\ Layered
    /\ call.argv = <<"--x", "v3", "v1">>
    /\ Before.stored_args["x"] = "1"
    /\ inst[call.m].args_mandatory = <<"x">>
    /\ call.setup # None
    /\ call.setup[1]["x"] = "v1"

\* C10: the construction that makes the session record of a name leaves it
\* IDLE with no results, and a construction for a name that has a record
\* changes neither its status nor its results, so a module is IDLE until its
\* first run_argv and a status of RUN or FAIL survives a new construction.
C10_ConstructionKeepsStatus ==
    Registered =>
        IF call.pre = None
        THEN After.status = IDLE /\ After.results = EmptyDict
        ELSE After.status = Before.status /\ After.results = Before.results

\* A module that failed, with a stored result, is constructed again.
C10_Witness ==
    /\ Registered
    /\ call.pre # None
    /\ Before.status = FAIL
    /\ Before.results # EmptyDict
    /\ After.status = FAIL

\* argv read by the kind of each word, wherever it stands: a word "--name"
\* with a declared name takes the next word as its value, any other word that
\* starts with "--" is invalid, and every other word is a mandatory word.
RECURSIVE ByKind(_, _)
ByKind(argv, declared) ==
    IF argv = <<>> THEN [invalid |-> FALSE, opts |-> EmptyDict, words |-> <<>>]
    ELSE IF StartsWith(argv[1], "--")
    THEN LET name == SubSeq(argv[1], 3, Len(argv[1]))
         IN IF name \notin declared \/ Len(argv) < 2
            THEN [invalid |-> TRUE, opts |-> EmptyDict, words |-> <<>>]
            ELSE LET r == ByKind(SubSeq(argv, 3, Len(argv)), declared)
                 IN [r EXCEPT !.opts = Update([k \in {name} |-> argv[2]], r.opts)]
    ELSE LET r == ByKind(Tail(argv), declared)
         IN [r EXCEPT !.words = <<argv[1]>> \o r.words]

\* The value the hooks receive for each declared mandatory name when words
\* are the mandatory words: the words joined for a single name, else the word
\* at the place of the name.
MandatoryValue(names, words, i) ==
    IF Len(names) = 1 THEN SpaceJoined(words) ELSE words[i]

\* C11, as claimed: run_argv reads argv by the kind of each word, wherever it
\* stands: the call is aborted as invalid options exactly when some word is
\* an unrecognized flag, and otherwise setup() receives the value of every
\* recognized option and the other words, in their order, as the mandatory
\* words.
C11_PartitionByKind ==
    Ran =>
        LET self == inst[call.m]
            names == self.args_mandatory
            k == ByKind(call.argv, DOMAIN self.args_optional)
        IN /\ k.invalid <=> call.aborted = "InvalidOptions"
           /\ (~k.invalid /\ call.setup # None) =>
                 /\ \A i \in 1..Len(names) :
                       (\A j \in (i + 1)..Len(names) : names[j] # names[i])
                          => call.setup[1][names[i]] = MandatoryValue(names, k.words, i)
                 /\ \A o \in DOMAIN k.opts :
                       (\A i \in 1..Len(names) : names[i] # o)
                          => call.setup[1][o] = k.opts[o]

\* C11, amended: options are read only in front of the first word that is
\* not an option.  When argv begins with such a word, the call is not aborted
\* as invalid options, every word of argv is a mandatory word, in its order
\* and whether or not it looks like a flag, and no argument takes its value
\* from an option.  A flag in front that no declared option matches aborts the
\* call as invalid options.
C11_OptionsOnlyInFront ==
    Ran =>
        LET self == inst[call.m]
            names == self.args_mandatory
            named == {names[i] : i \in 1..Len(names)}
        IN /\ UnrecognizedFlag(call.argv, self.args_optional)
                 => call.aborted = "InvalidOptions"
           /\ (call.argv # <<>> /\ ~StartsWith(call.argv[1], "-")) =>
                 /\ call.aborted # "InvalidOptions"
                 /\ call.aborted = "MissingArguments" <=> Len(call.argv) < Len(names)
                 /\ call.setup # None =>
                       /\ \A i \in 1..Len(names) :
                             (\A j \in (i + 1)..Len(names) : names[j] # names[i])
                                => call.setup[1][names[i]]
                                      = MandatoryValue(names, call.argv, i)
                       /\ \A o \in (DOMAIN call.setup[1]) \ named :
                             /\ o \in DOMAIN Before.stored_args
                             /\ call.setup[1][o] = Before.stored_args[o]

\* v1 --x v3 on a module that declares the option x: the three words are
\* the one mandatory argument.
C11_Witness ==
    /\ Ran
    /\ call.argv = <<"v1", "--x", "v3">>
    /\ "x" \in DOMAIN inst[call.m].args_optional
    /\ inst[call.m].args_mandatory = <<"x">>
    /\ call.setup # None
    /\ call.setup[1]["x"] = "v1 --x v3"

\* A run_argv on a module with more than one mandatory argument whose argv
\* is made of more mandatory words than the module declares.
ExcessWords ==
    /\ Ran
    /\ Len(inst[call.m].args_mandatory) > 1
    /\ call.argv # <<>>
    /\ ~StartsWith(call.argv[1], "-")
    /\ Len(call.argv) > Len(inst[call.m].args_mandatory)

\* C12, as claimed: a run_argv with more mandatory words than the more than
\* one declared raises a runtime error in the step after setup(), and run()
\* is not completed.
C12_ExcessWordsRaise ==
    (ExcessWords /\ call.aborted = "") => (call.raised # "" /\ call.run = None)

\* C12, amended: with more than one declared mandatory argument, the words
\* beyond the declared ones are dropped.  The call is not aborted for its
\* options or its arity, the declared names take the first words in their
\* order, no argument of the call comes from a dropped word, and run() is
\* invoked, and nothing is raised, whenever the module is not failed and
\* setup() stored no key that stored_args lacked before the call.
C12_ExcessWordsDropped ==
    ExcessWords =>
        LET names == inst[call.m].args_mandatory
            named == {names[i] : i \in 1..Len(names)}
        IN /\ call.aborted \notin ParseFailures
           /\ call.setup # None =>
                 /\ \A i \in 1..Len(names) : call.setup[1][names[i]] = call.argv[i]
                 /\ DOMAIN call.setup[1] = named \cup DOMAIN Before.stored_args
           /\ (/\ call.aborted = ""
               /\ DOMAIN After.stored_args \subseteq DOMAIN Before.stored_args)
                 => /\ call.raised = ""
                    /\ call.run # None
                    /\ DOMAIN call.run[1] = named \cup DOMAIN Before.stored_args

\* v1 v3 v1 on a module that declares x and y: run() is invoked with x = v1
\* and y = v3, and nothing is raised.
C12_Witness ==
    /\ ExcessWords
    /\ call.argv = <<"v1", "v3", "v1">>
    /\ inst[call.m].args_mandatory = <<"x", "y">>
    /\ call.raised = ""
    /\ call.run # None
    /\ call.run[1]["x"] = "v1"
    /\ call.run[1]["y"] = "v3"

\* C13: when run() is invoked after setup(), every key of the stored_args of
\* before the call whose stored value setup() changed reaches run() with the
\* new stored value, also when the command line gave a value for that key,
\* and every key whose stored value is as before reaches run() with the value
\* setup() received for it.
C13_ChangedStoredValueWins ==
    (Ran /\ call.setup # None /\ call.run # None) =>
        \A key \in DOMAIN Before.stored_args :
           IF After.stored_args[key] # Before.stored_args[key]
           THEN call.run[1][key] = After.stored_args[key]
           ELSE call.run[1][key] = call.setup[1][key]

\* The command line gives x the value v1, setup() stores x = 2 over the
\* stored 1, and run() receives x = 2.
C13_Witness ==
    /\ Ran
    /\ call.argv = <<"v1">>
    /\ "x" \in DOMAIN Before.stored_args
    /\ Before.stored_args["x"] = "1"
    /\ After.stored_args["x"] = "2"
    /\ call.setup # None
    /\ call.setup[1]["x"] = "v1"
    /\ call.run # None
    /\ call.run[1]["x"] = "2"

\* C14: a setup() that returns IDLE leaves the stored status IDLE, run() is
\* invoked in that call and what it returns is returned, and the next run_argv
\* on the module that passes the checks of options, arity and vector invokes
\* setup() again; a setup() that returns RUN is followed by run() in that
\* call, and later calls skip setup().
C14_SetupIdleOrRunThenRun ==
    [][/\ (call'.op = "run_argv" /\ call'.setup_ret \in {Some(IDLE), Some(RUN)}) =>
             /\ session'[call'.m].status = call'.setup_ret[1]
             /\ call'.run # None
             /\ call'.raised = ""
       /\ \A m \in DOMAIN session :
             (call'.op = "run_argv" /\ call'.m = m) =>
                /\ (session[m].status = IDLE /\ call'.aborted \notin ValidationFailures)
                      => call'.setup # None
                /\ session[m].status = RUN => call'.setup = None]_vars

\* C15: run_argv itself stores nothing of the arguments it resolved: after
\* a call in which neither setup() nor run() wrote to the session, stored_args
\* and results of the module are what they were before the call, whatever
\* the argv.
C15_ResolvedArgsNotStored ==
    (Ran /\ ~call.wrote) =>
        /\ After.stored_args = Before.stored_args
        /\ After.results = Before.results

\* --target v1 v3: run() receives target = v1 and x = v3, the hooks write
\* nothing, and the stored target and x are still "" and 1.
C15_Witness ==
    /\ Ran
    /\ ~call.wrote
    /\ call.argv = <<"--target", "v1", "v3">>
    /\ call.run # None
    /\ call.run[1]["target"] = "v1"
    /\ call.run[1]["x"] = "v3"
    /\ After.stored_args = [x |-> "1", target |-> ""]

\* C17, as claimed: help is rendered in every run_argv that is aborted for
\* its options, for its arity or for the value of the argument bound to the
\* vectors.
C17_HelpOnEveryFailure ==
    (Ran /\ call.aborted \in ValidationFailures) => call.help

\* C17, amended: help is rendered in every run_argv that is aborted for its
\* options or for its arity, and in no other; a run_argv aborted for the value
\* of the argument bound to the vectors renders no help.
C17_HelpOnParseFailureOnly ==
    Ran =>
        /\ call.help <=> call.aborted \in ParseFailures
        /\ call.aborted = "NotAVector" => ~call.help

\* --target v3 v1 names no vector: the call is aborted and no help is
\* rendered.
C17_Witness ==
    /\ Ran
    /\ call.argv = <<"--target", "v3", "v1">>
    /\ call.aborted = "NotAVector"
    /\ ~call.help

\* The call just made is a run_cmdline.
RanCmdline == call.op = "run_cmdline"

\* C16: run_cmdline raises nothing to its caller.  When the line cannot be
\* split into words it returns nothing, neither setup() nor run() is invoked
\* and the session record is as before; when run_argv returns, run_cmdline
\* returns what run_argv returned.
C16_RunCmdlineNeverRaises ==
    RanCmdline =>
        /\ RunCmdlineRaised(call) = ""
        /\ call.raised = "ValueError" =>
              /\ RunCmdlineResult(call) = None
              /\ call.setup = None
              /\ call.run = None
              /\ RecordValue(session, heap, call.m) = call.pre
        /\ call.raised = "" => RunCmdlineResult(call) = call.ret

\* The line 'v1 has a quote that is never closed: nothing is returned, no
\* hook is invoked and the record is as before.
C16_Witness ==
    /\ RanCmdline
    /\ call.line = Some("'v1")
    /\ call.raised = "ValueError"
    /\ RunCmdlineRaised(call) = ""
    /\ RunCmdlineResult(call) = None
    /\ call.setup = None
    /\ call.run = None
    /\ RecordValue(session, heap, call.m) = call.pre

\* C18: the session records of two module names are isolated: no
\* construction (with the register_arguments of its init(), given an optional
\* mapping or not) and no run_argv (with its setup()) on one module changes
\* the stored_args, the results or the status of another module, and what the
\* setup() of one stores in its stored_args is not seen in the stored_args of
\* another.
C18_RecordsIsolated ==
    [][\A b \in DOMAIN session :
          (call'.op \in {"construct", "run_argv"} /\ call'.m # b)
             => RecordValue(session', heap', b) = RecordValue(session, heap, b)]_vars

====
